---- MODULE Spec2Model ----
(***************************************************************************)
(* Model of scripts/solar_tracker_keyframe.py: the SolarSystem tracker,    *)
(* its four actuator commands, the move command computed from the bright   *)
(* spot of the camera image, and the keyframes it writes to the host.      *)
(*                                                                         *)
(* ss  is the SolarSystem object (its self.* fields).  A camera frame is   *)
(*     represented by the pixel location of its maximum, which is all that *)
(*     cv2.minMaxLoc hands to the rest of the code: ss.data is that        *)
(*     location, or None before the first render.                          *)
(* bpy is the host: the two motor objects (rotation_euler channel driven   *)
(*     by the script, and the list of keyframe_insert calls made on it),   *)
(*     and the scene's current frame.  The host is storage only: it keeps  *)
(*     what the script writes to it.                                       *)
(* Angles on the host are radians, kept as whole micro-radians.            *)
(***************************************************************************)
EXTENDS Integers, Sequences, FiniteSets, TLC

VARIABLES ss, bpy

vars == <<ss, bpy>>

None == "None"

(* ---------------- bounds of the exploration ---------------- *)

\* rotation is explored within MaxRot degrees of the start state
MaxRot == 1
\* at most MaxKeyframes keyframes are added per motor to those of the start state
MaxKeyframes == 1
\* the internal tilt is explored within MaxDrift degrees of the start state
MaxDrift == 2
\* number of upward iterations that lead to the start state next to the limit
ClimbLen == 90
\* number of leftward iterations that lead to the start state at a full turn
TurnLen == 360

(* ---------------- helpers ---------------- *)

\* math.radians, in whole micro-radians (pi / 180 = 0.01745329...)
radians(deg) == (deg * 1745329) \div 100

\* obj.keyframe_insert(data_path="rotation_euler", index=.., frame=frame):
\* the channel's current value is recorded at the given frame
keyframe_insert(host, obj, frame) ==
    [host EXCEPT ![obj].keyframes =
        Append(@, [frame |-> frame, value |-> host[obj].rotation_euler])]

(* ---------------- SolarSystem ---------------- *)

\* SolarSystem.__init__: the object and the host after construction
__init__ ==
    [ss  |-> [tilt |-> 0, rotation |-> 0, step |-> 1,
              impossible_move |-> FALSE, dir_x |-> None, dir_y |-> None,
              data |-> None, res_x |-> 512, res_y |-> 512,
              center |-> 512 \div 2, t |-> 32,
              frame_no |-> 0, frame_step |-> 5],
     bpy |-> [motor_tilt   |-> [rotation_euler |-> radians(0), keyframes |-> <<>>],
              motor_rotate |-> [rotation_euler |-> radians(0), keyframes |-> <<>>],
              frame_current |-> 0]]

\* SolarSystem._update_sensor: the scene is set to the current frame and
\* rendered; frame is the image the render produces
_update_sensor(w, frame) ==
    [w EXCEPT !.bpy.frame_current = w.ss.frame_no,
              !.ss.data = frame]

\* move_command with the dead-zone test made before the coarse decision,
\* which then overwrites it
move_command_coarse_last(self, max_loc) ==
    LET x0 == IF max_loc[1] >= self.center THEN "RIGHT" ELSE "LEFT"
        y0 == IF max_loc[2] >= self.center THEN "DOWN" ELSE "UP"
    IN  <<x0, y0>>

\* move_command with a dead zone that includes its edges
move_command_inclusive(self, max_loc) ==
    LET x0 == IF max_loc[1] >= self.center THEN "RIGHT" ELSE "LEFT"
        y0 == IF max_loc[2] >= self.center THEN "DOWN" ELSE "UP"
        dir_x == IF self.center - self.t <= max_loc[1] /\ max_loc[1] <= self.center + self.t
                 THEN "CENTER" ELSE x0
        dir_y == IF self.center - self.t <= max_loc[2] /\ max_loc[2] <= self.center + self.t
                 THEN "CENTER" ELSE y0
    IN  <<dir_x, dir_y>>

\* the move command of _find_bright_spot for the maximum location max_loc
move_command(self, max_loc) ==
    LET x0 == IF max_loc[1] >= self.center THEN "RIGHT" ELSE "LEFT"
        y0 == IF max_loc[2] >= self.center THEN "DOWN" ELSE "UP"
        dir_x == IF self.center - self.t < max_loc[1] /\ max_loc[1] < self.center + self.t
                 THEN "CENTER" ELSE x0
        dir_y == IF self.center - self.t < max_loc[2] /\ max_loc[2] < self.center + self.t
                 THEN "CENTER" ELSE y0
    IN  <<dir_x, dir_y>>

\* SolarSystem._find_bright_spot: render, locate the maximum, classify it.
\* Returns the new state and the direction pair.
_find_bright_spot(w, frame) ==
    LET w1 == _update_sensor(w, frame)
    IN  [w |-> w1, direction |-> move_command(w1.ss, w1.ss.data)]

\* _increase_tilt that stores the clamped angle instead of the requested one
_increase_tilt_clamped(w) ==
    LET w1 == [w EXCEPT !.ss.tilt = @ + w.ss.step]
    IN  IF w1.ss.tilt > 90
        THEN [w1 EXCEPT !.ss.impossible_move = TRUE, !.ss.tilt = 90]
        ELSE [w1 EXCEPT !.bpy.motor_tilt.rotation_euler = radians(w1.ss.tilt)]

\* _increase_tilt that re-evaluates the flag on every command
_increase_tilt_reevaluate(w) ==
    LET w1 == [w EXCEPT !.ss.tilt = @ + w.ss.step]
    IN  IF w1.ss.tilt > 90
        THEN [w1 EXCEPT !.ss.impossible_move = TRUE]
        ELSE [w1 EXCEPT !.ss.impossible_move = FALSE,
                        !.bpy.motor_tilt.rotation_euler = radians(w1.ss.tilt)]

\* _increase_tilt that tests the bound on the tilt it started with
_increase_tilt_tests_old_value(w) ==
    LET w1 == [w EXCEPT !.ss.tilt = @ + w.ss.step]
    IN  IF w.ss.tilt > 90
        THEN [w1 EXCEPT !.ss.impossible_move = TRUE]
        ELSE [w1 EXCEPT !.bpy.motor_tilt.rotation_euler = radians(w1.ss.tilt)]

_increase_tilt(w) ==
    LET w1 == [w EXCEPT !.ss.tilt = @ + w.ss.step]
    IN  IF w1.ss.tilt > 90
        THEN [w1 EXCEPT !.ss.impossible_move = TRUE]
        ELSE [w1 EXCEPT !.bpy.motor_tilt.rotation_euler = radians(w1.ss.tilt)]

\* _decrease_tilt that re-evaluates the flag on every command
_decrease_tilt_reevaluate(w) ==
    LET w1 == [w EXCEPT !.ss.tilt = @ - w.ss.step]
    IN  IF w1.ss.tilt < 0
        THEN [w1 EXCEPT !.ss.impossible_move = TRUE]
        ELSE [w1 EXCEPT !.ss.impossible_move = FALSE,
                        !.bpy.motor_tilt.rotation_euler = radians(w1.ss.tilt)]

_decrease_tilt(w) ==
    LET w1 == [w EXCEPT !.ss.tilt = @ - w.ss.step]
    IN  IF w1.ss.tilt < 0
        THEN [w1 EXCEPT !.ss.impossible_move = TRUE]
        ELSE [w1 EXCEPT !.bpy.motor_tilt.rotation_euler = radians(w1.ss.tilt)]

\* _increase_rotation that starts a new turn on the host beyond 360 degrees
_increase_rotation_wrapped(w) ==
    LET w1 == [w EXCEPT !.ss.rotation = @ + w.ss.step]
        angle == IF w1.ss.rotation > 360 THEN w1.ss.rotation - 360 ELSE w1.ss.rotation
    IN  [w1 EXCEPT !.bpy.motor_rotate.rotation_euler = radians(angle)]

_increase_rotation(w) ==
    LET w1 == [w EXCEPT !.ss.rotation = @ + w.ss.step]
    IN  [w1 EXCEPT !.bpy.motor_rotate.rotation_euler = radians(w1.ss.rotation)]

_decrease_rotation(w) ==
    LET w1 == [w EXCEPT !.ss.rotation = @ - w.ss.step]
    IN  [w1 EXCEPT !.bpy.motor_rotate.rotation_euler = radians(w1.ss.rotation)]

\* the keyframe block with the keyframes inserted before the frame advances
generate_keyframes_then_advance(w) ==
    LET h1 == keyframe_insert(w.bpy, "motor_tilt", w.ss.frame_no)
        h2 == keyframe_insert(h1, "motor_rotate", w.ss.frame_no)
    IN  [w EXCEPT !.bpy = h2, !.ss.frame_no = @ + w.ss.frame_step]

\* the keyframe block with the frame stepped backwards
generate_keyframes_backwards(w) ==
    LET w1 == [w EXCEPT !.ss.frame_no = @ - w.ss.frame_step]
        h1 == keyframe_insert(w1.bpy, "motor_tilt", w1.ss.frame_no)
        h2 == keyframe_insert(h1, "motor_rotate", w1.ss.frame_no)
    IN  [w1 EXCEPT !.bpy = h2]

\* the keyframe block with the frame advanced only for a feasible move
generate_keyframes_advance_if_possible(w) ==
    LET w1 == IF w.ss.impossible_move THEN w
              ELSE [w EXCEPT !.ss.frame_no = @ + w.ss.frame_step]
        h1 == keyframe_insert(w1.bpy, "motor_tilt", w1.ss.frame_no)
        h2 == keyframe_insert(h1, "motor_rotate", w1.ss.frame_no)
    IN  [w1 EXCEPT !.bpy = h2]

\* the "Generate keyframes" block of iterate
generate_keyframes(w) ==
    LET w1 == [w EXCEPT !.ss.frame_no = @ + w.ss.frame_step]
        h1 == keyframe_insert(w1.bpy, "motor_tilt", w1.ss.frame_no)
        h2 == keyframe_insert(h1, "motor_rotate", w1.ss.frame_no)
    IN  [w1 EXCEPT !.bpy = h2]

\* iterate with the keyframe block ahead of the base case
iterate_keyframe_first(w, frame) ==
    LET found == _find_bright_spot(w, frame)
        w1 == [found.w EXCEPT !.ss.dir_x = found.direction[1],
                              !.ss.dir_y = found.direction[2]]
        k1 == generate_keyframes(w1)
        w2 == IF k1.ss.dir_x = "RIGHT" THEN _decrease_rotation(k1) ELSE k1
        w3 == IF w2.ss.dir_x = "LEFT" THEN _increase_rotation(w2) ELSE w2
        w4 == IF w3.ss.dir_y = "DOWN" THEN _decrease_tilt(w3) ELSE w3
        w5 == IF w4.ss.dir_y = "UP" THEN _increase_tilt(w4) ELSE w4
    IN  IF k1.ss.dir_x = "CENTER" /\ k1.ss.dir_y = "CENTER" THEN k1 ELSE w5

\* iterate with the keyframe block outside the UP branch: a keyframe for
\* every iteration that moves
iterate_keyframe_any_move(w, frame) ==
    LET found == _find_bright_spot(w, frame)
        w1 == [found.w EXCEPT !.ss.dir_x = found.direction[1],
                              !.ss.dir_y = found.direction[2]]
        w2 == IF w1.ss.dir_x = "RIGHT" THEN _decrease_rotation(w1) ELSE w1
        w3 == IF w2.ss.dir_x = "LEFT" THEN _increase_rotation(w2) ELSE w2
        w4 == IF w3.ss.dir_y = "DOWN" THEN _decrease_tilt(w3) ELSE w3
        w5 == IF w4.ss.dir_y = "UP" THEN _increase_tilt(w4) ELSE w4
    IN  IF w1.ss.dir_x = "CENTER" /\ w1.ss.dir_y = "CENTER" THEN w1
        ELSE generate_keyframes(w5)

\* iterate with the four tests chained by elif: one command per iteration
iterate_elif(w, frame) ==
    LET found == _find_bright_spot(w, frame)
        w1 == [found.w EXCEPT !.ss.dir_x = found.direction[1],
                              !.ss.dir_y = found.direction[2]]
        w5 == IF w1.ss.dir_x = "RIGHT" THEN _decrease_rotation(w1)
              ELSE IF w1.ss.dir_x = "LEFT" THEN _increase_rotation(w1)
              ELSE IF w1.ss.dir_y = "DOWN" THEN _decrease_tilt(w1)
              ELSE IF w1.ss.dir_y = "UP" THEN generate_keyframes(_increase_tilt(w1))
              ELSE w1
    IN  IF w1.ss.dir_x = "CENTER" /\ w1.ss.dir_y = "CENTER" THEN w1 ELSE w5

\* iterate that stays converged: once both directions are CENTER a call
\* renders the frame and returns
iterate_latched(w, frame) ==
    LET found == _find_bright_spot(w, frame)
        w1 == [found.w EXCEPT !.ss.dir_x = found.direction[1],
                              !.ss.dir_y = found.direction[2]]
        w2 == IF w1.ss.dir_x = "RIGHT" THEN _decrease_rotation(w1) ELSE w1
        w3 == IF w2.ss.dir_x = "LEFT" THEN _increase_rotation(w2) ELSE w2
        w4 == IF w3.ss.dir_y = "DOWN" THEN _decrease_tilt(w3) ELSE w3
        w5 == IF w4.ss.dir_y = "UP" THEN generate_keyframes(_increase_tilt(w4)) ELSE w4
    IN  IF w.ss.dir_x = "CENTER" /\ w.ss.dir_y = "CENTER" THEN found.w
        ELSE IF w1.ss.dir_x = "CENTER" /\ w1.ss.dir_y = "CENTER" THEN w1 ELSE w5

\* iterate that stops commanding moves once impossible_move is set
iterate_stops_when_impossible(w, frame) ==
    LET found == _find_bright_spot(w, frame)
        w1 == [found.w EXCEPT !.ss.dir_x = found.direction[1],
                              !.ss.dir_y = found.direction[2]]
        w2 == IF w1.ss.dir_x = "RIGHT" THEN _decrease_rotation(w1) ELSE w1
        w3 == IF w2.ss.dir_x = "LEFT" THEN _increase_rotation(w2) ELSE w2
        w4 == IF w3.ss.dir_y = "DOWN" THEN _decrease_tilt(w3) ELSE w3
        w5 == IF w4.ss.dir_y = "UP" THEN generate_keyframes(_increase_tilt(w4)) ELSE w4
    IN  IF w1.ss.impossible_move THEN w1
        ELSE IF w1.ss.dir_x = "CENTER" /\ w1.ss.dir_y = "CENTER" THEN w1 ELSE w5

\* SolarSystem.iterate on the frame the sensor renders in this call
iterate(w, frame) ==
    LET found == _find_bright_spot(w, frame)
        w1 == [found.w EXCEPT !.ss.dir_x = found.direction[1],
                              !.ss.dir_y = found.direction[2]]
        w2 == IF w1.ss.dir_x = "RIGHT" THEN _decrease_rotation(w1) ELSE w1
        w3 == IF w2.ss.dir_x = "LEFT" THEN _increase_rotation(w2) ELSE w2
        w4 == IF w3.ss.dir_y = "DOWN" THEN _decrease_tilt(w3) ELSE w3
        w5 == IF w4.ss.dir_y = "UP" THEN generate_keyframes(_increase_tilt(w4)) ELSE w4
    IN  IF w1.ss.dir_x = "CENTER" /\ w1.ss.dir_y = "CENTER" THEN w1 ELSE w5

(* ---------------- start states ---------------- *)

\* the state after n calls of iterate, each on a frame whose bright spot is
\* centred horizontally and on the top row (direction CENTER, UP): the host
\* follows the tilt up to 90 degrees and stays there
Reached(n) == IF n > 90 THEN 90 ELSE n

Climb(n) ==
    IF n = 0 THEN __init__
    ELSE [ss  |-> [__init__.ss EXCEPT !.tilt = n, !.impossible_move = (n > 90),
                                      !.dir_x = "CENTER", !.dir_y = "UP",
                                      !.data = <<256, 0>>, !.frame_no = 5 * n],
          bpy |-> [motor_tilt |->
                      [rotation_euler |-> radians(Reached(n)),
                       keyframes |-> [i \in 1 .. n |->
                                        [frame |-> 5 * i, value |-> radians(Reached(i))]]],
                   motor_rotate |->
                      [rotation_euler |-> radians(0),
                       keyframes |-> [i \in 1 .. n |->
                                        [frame |-> 5 * i, value |-> radians(0)]]],
                   frame_current |-> 5 * (n - 1)]]

\* Climb(n) is what iterate makes of Climb(n - 1)
ClimbIsIterate ==
    \A n \in 1 .. ClimbLen : Climb(n) = iterate(Climb(n - 1), <<256, 0>>)

Climbed == Climb(ClimbLen)

\* the state after n calls of iterate, each on a frame whose bright spot is
\* on the left edge and centred vertically (direction LEFT, CENTER)
Turn(n) ==
    IF n = 0 THEN __init__
    ELSE [ss  |-> [__init__.ss EXCEPT !.rotation = n,
                                      !.dir_x = "LEFT", !.dir_y = "CENTER",
                                      !.data = <<0, 256>>],
          bpy |-> [__init__.bpy EXCEPT !.motor_rotate.rotation_euler = radians(n)]]

\* Turn(n) is what iterate makes of Turn(n - 1)
TurnIsIterate ==
    \A n \in 1 .. TurnLen : Turn(n) = iterate(Turn(n - 1), <<0, 256>>)

Turned == Turn(TurnLen)

\* the start state a state was explored from
Origin(w) ==
    IF Len(w.bpy.motor_tilt.keyframes) >= ClimbLen THEN Climbed
    ELSE IF w.ss.rotation >= TurnLen - MaxRot THEN Turned
    ELSE __init__

\* the explored window around the start state
InWindow(w) ==
    LET o == Origin(w)
    IN  /\ w.ss.rotation >= o.ss.rotation - MaxRot
        /\ w.ss.rotation <= o.ss.rotation + MaxRot
        /\ w.ss.tilt >= o.ss.tilt - MaxDrift /\ w.ss.tilt <= o.ss.tilt + MaxDrift
        /\ Len(w.bpy.motor_tilt.keyframes)
              <= Len(o.bpy.motor_tilt.keyframes) + MaxKeyframes

\* bright spots offered to iterate: the first and last pixel of an axis and
\* the centre, one for each direction an axis can take
Coords == {0, 256, 511}
Spots == Coords \X Coords

\* every pixel of the frame
Pixels == (0 .. 511) \X (0 .. 511)

(* ---------------- specifications ---------------- *)

World == [ss |-> ss, bpy |-> bpy]

Init == ss = __init__.ss /\ bpy = __init__.bpy

Iterate ==
    \E frame \in Spots :
        LET w == iterate(World, frame)
        IN  /\ InWindow(w)
            /\ ss' = w.ss
            /\ bpy' = w.bpy

Next == Iterate

Spec == Init /\ [][Next]_vars

\* the tracker started fresh or after the climb to just below the tilt limit
InitLimit ==
    /\ ClimbIsIterate
    /\ \E w \in {__init__, Climbed} : ss = w.ss /\ bpy = w.bpy

SpecLimit == InitLimit /\ [][Next]_vars

\* the tracker started fresh or after a full turn of the rotation axis
InitTurned ==
    /\ TurnIsIterate
    /\ \E w \in {__init__, Turned} : ss = w.ss /\ bpy = w.bpy

SpecTurned == InitTurned /\ [][Next]_vars

\* a frame has been captured anywhere in the image and is classified
InitClassify ==
    /\ \E p \in Pixels : ss = [__init__.ss EXCEPT !.data = p]
    /\ bpy = __init__.bpy

Classify ==
    /\ ss.dir_x = None
    /\ LET direction == move_command(ss, ss.data)
       IN  ss' = [ss EXCEPT !.dir_x = direction[1], !.dir_y = direction[2]]
    /\ UNCHANGED bpy

NextClassify == Classify

SpecClassify == InitClassify /\ [][NextClassify]_vars

(* ---------------- properties ---------------- *)

tilt_keys == bpy.motor_tilt.keyframes
rotate_keys == bpy.motor_rotate.keyframes
host_tilt == bpy.motor_tilt.rotation_euler
host_rotate == bpy.motor_rotate.rotation_euler

\* the direction pair of the last iterate is known
Classified == ss.dir_x # None /\ ss.dir_y # None

\* a coordinate lies strictly inside the dead zone
InDeadZone(c) == ss.center - ss.t < c /\ c < ss.center + ss.t

\* a tilt in degrees respects the bounds of the tilt axis
TiltInBounds(deg) == deg >= 0 /\ deg <= 90

\* C1: the tilt angle applied to the host (motor_tilt) is always within
\* [0, 90] degrees, whatever bright spots the iterations have seen
C1_HostTiltWithinBounds ==
    host_tilt >= radians(0) /\ host_tilt <= radians(90)

\* C2: a bright spot with both coordinates strictly inside
\* (center - t, center + t) is classified (CENTER, CENTER)
C2_DeadZoneIsCenter ==
    (Classified /\ InDeadZone(ss.data[1]) /\ InDeadZone(ss.data[2]))
        => (ss.dir_x = "CENTER" /\ ss.dir_y = "CENTER")

\* a spot on the innermost pixels of the dead zone has been classified
C2_Witness ==
    /\ ss.data = <<225, 287>>
    /\ ss.dir_x = "CENTER" /\ ss.dir_y = "CENTER"

\* C3: x >= center + t gives RIGHT and x <= center - t gives LEFT,
\* y >= center + t gives DOWN and y <= center - t gives UP, whatever the
\* other coordinate is; the edges of the dead zone are never CENTER
C3_OutsideDeadZone ==
    Classified =>
        /\ (ss.data[1] >= ss.center + ss.t => ss.dir_x = "RIGHT")
        /\ (ss.data[1] <= ss.center - ss.t => ss.dir_x = "LEFT")
        /\ (ss.data[2] >= ss.center + ss.t => ss.dir_y = "DOWN")
        /\ (ss.data[2] <= ss.center - ss.t => ss.dir_y = "UP")

\* a spot on two edges of the dead zone has been classified
C3_Witness ==
    /\ ss.data = <<224, 288>>
    /\ ss.dir_x = "LEFT" /\ ss.dir_y = "DOWN"

\* C4: an iterate whose frame classifies as (CENTER, CENTER) leaves tilt,
\* rotation, both host angles, impossible_move, frame_no and the keyframes
\* as they were
C4_ConvergedChangesNothing ==
    [][(ss'.dir_x = "CENTER" /\ ss'.dir_y = "CENTER") =>
          /\ ss'.tilt = ss.tilt
          /\ ss'.rotation = ss.rotation
          /\ ss'.impossible_move = ss.impossible_move
          /\ ss'.frame_no = ss.frame_no
          /\ host_tilt' = host_tilt
          /\ host_rotate' = host_rotate
          /\ tilt_keys' = tilt_keys
          /\ rotate_keys' = rotate_keys]_vars

\* a converged iterate has run on a tracker that had moved both axes and
\* written a keyframe (the scene was set to the keyframe's frame by it)
C4_Witness ==
    /\ ss.dir_x = "CENTER" /\ ss.dir_y = "CENTER"
    /\ ss.rotation # 0 /\ ss.tilt # 0
    /\ Len(tilt_keys) > 0
    /\ bpy.frame_current = ss.frame_no

\* C5: an upward iterate that takes the internal tilt above 90 (a downward
\* one that takes it below 0) sets impossible_move, leaves the host tilt
\* where it was and keeps the new value in the internal tilt
C5_InfeasibleTilt ==
    [][/\ (ss'.dir_y = "UP" /\ ss.tilt + ss.step > 90) =>
              /\ ss'.impossible_move
              /\ host_tilt' = host_tilt
              /\ ss'.tilt = ss.tilt + ss.step
       /\ (ss'.dir_y = "DOWN" /\ ss.tilt - ss.step < 0) =>
              /\ ss'.impossible_move
              /\ host_tilt' = host_tilt
              /\ ss'.tilt = ss.tilt - ss.step]_vars

\* from tilt 90 an upward iterate has left the host at 90 degrees
C5_Witness ==
    /\ ss.dir_y = "UP"
    /\ ss.tilt = 91
    /\ ss.impossible_move
    /\ host_tilt = radians(90)

\* C6: an iterate appends a keyframe to each motor and advances frame_no by
\* frame_step exactly when its vertical direction is UP
C6_KeyframeIffUp ==
    [][IF ss'.dir_y = "UP"
       THEN /\ Len(tilt_keys') = Len(tilt_keys) + 1
            /\ Len(rotate_keys') = Len(rotate_keys) + 1
            /\ SubSeq(tilt_keys', 1, Len(tilt_keys)) = tilt_keys
            /\ SubSeq(rotate_keys', 1, Len(rotate_keys)) = rotate_keys
            /\ ss'.frame_no = ss.frame_no + ss.frame_step
       ELSE /\ tilt_keys' = tilt_keys
            /\ rotate_keys' = rotate_keys
            /\ ss'.frame_no = ss.frame_no]_vars

\* an upward iterate whose tilt step was infeasible, together with a
\* horizontal correction, has written its keyframe
C6_Witness ==
    /\ ss.dir_x = "LEFT" /\ ss.dir_y = "UP"
    /\ ss.tilt > 90
    /\ Len(tilt_keys) > 0
    /\ tilt_keys[Len(tilt_keys)].frame = ss.frame_no
    /\ tilt_keys[Len(tilt_keys)].value = radians(90)

\* C7 as stated: an upward iterate writes its keyframe at the frame number
\* it started with and advances frame_no afterwards
C7_KeyframeAtStartFrame ==
    [][ss'.dir_y = "UP" =>
          /\ tilt_keys'[Len(tilt_keys')].frame = ss.frame_no
          /\ rotate_keys'[Len(rotate_keys')].frame = ss.frame_no
          /\ ss'.frame_no = ss.frame_no + ss.frame_step]_vars

\* C7 amended: an upward iterate advances frame_no by frame_step first and
\* writes its keyframe at the advanced frame number; the first keyframe of a
\* tracker is at frame 5
C7_KeyframeAtAdvancedFrame ==
    /\ [](Len(tilt_keys) > 0 =>
            tilt_keys[1].frame = 5 /\ rotate_keys[1].frame = 5)
    /\ [][ss'.dir_y = "UP" =>
            /\ ss'.frame_no = ss.frame_no + ss.frame_step
            /\ tilt_keys'[Len(tilt_keys')].frame = ss'.frame_no
            /\ rotate_keys'[Len(rotate_keys')].frame = ss'.frame_no]_vars

\* the first upward iterate of a fresh tracker has run
C7_Witness ==
    /\ ss.dir_y = "UP"
    /\ Len(tilt_keys) = 1
    /\ tilt_keys[1].frame = 5
    /\ ss.frame_no = 5

\* C8: RIGHT takes step from the rotation, LEFT adds it, DOWN takes step from
\* the internal tilt, UP adds it, and CENTER leaves its axis alone, each axis
\* whatever the direction of the other
C8_OneStepPerAxis ==
    [][/\ ss'.rotation =
            ss.rotation + (CASE ss'.dir_x = "RIGHT" -> -ss.step
                             [] ss'.dir_x = "LEFT" -> ss.step
                             [] OTHER -> 0)
       /\ ss'.tilt =
            ss.tilt + (CASE ss'.dir_y = "DOWN" -> -ss.step
                         [] ss'.dir_y = "UP" -> ss.step
                         [] OTHER -> 0)]_vars

\* an iterate has corrected both axes at once
C8_Witness ==
    /\ ss.dir_x = "RIGHT" /\ ss.dir_y = "DOWN"
    /\ ss.rotation = -1
    /\ ss.tilt = -1

\* C9 as stated: after every tilt command impossible_move tells whether that
\* command took the tilt out of [0, 90], and nothing else changes the flag
C9_FlagOfLastTiltChange ==
    [][IF ss'.tilt # ss.tilt
       THEN ss'.impossible_move <=> ~TiltInBounds(ss'.tilt)
       ELSE ss'.impossible_move = ss.impossible_move]_vars

\* C9 amended: impossible_move is true if and only if some tilt command
\* since construction took the internal tilt out of [0, 90]: the flag is
\* false at first, turns true with such a command and is never cleared
C9_FlagOfAnyTiltChange ==
    /\ [](~TiltInBounds(ss.tilt) => ss.impossible_move)
    /\ [][ss'.impossible_move <=>
             (ss.impossible_move \/
                (ss'.tilt # ss.tilt /\ ~TiltInBounds(ss'.tilt)))]_vars

\* the flag is set although the last tilt command was applied to the host
C9_Witness ==
    /\ ss.impossible_move
    /\ ss.dir_y = "UP"
    /\ ss.tilt = 0
    /\ host_tilt = radians(0)

\* C10: after a tilt command whose result is not on the host
\* impossible_move is true, and once true it stays true
C10_ViolationStaysVisible ==
    [][/\ (ss'.tilt # ss.tilt /\ host_tilt' # radians(ss'.tilt))
              => ss'.impossible_move
       /\ ss.impossible_move => ss'.impossible_move]_vars

\* the flag is still set after a later tilt command was applied and a
\* converged iterate has run
C10_Witness ==
    /\ ss.impossible_move
    /\ ss.dir_x = "CENTER" /\ ss.dir_y = "CENTER"
    /\ ss.tilt = 90
    /\ host_tilt = radians(90)

\* the last tilt command was infeasible: its result is not on the host
TiltNotApplied == host_tilt # radians(ss.tilt)

\* C11: after one or more infeasible tilt commands at a bound, the first
\* tilt command in the opposite direction brings the internal tilt back
\* within [0, 90], equal to the angle on the host
C11_OppositeCommandCorrects ==
    [][(/\ TiltNotApplied
        /\ \/ ss.tilt < 0 /\ ss'.dir_y = "UP"
           \/ ss.tilt > 90 /\ ss'.dir_y = "DOWN")
          => /\ TiltInBounds(ss'.tilt)
             /\ host_tilt' = radians(ss'.tilt)]_vars

\* C12: across every iterate the new frame_no is the old one or exactly
\* frame_step larger, so frame_no never decreases
C12_FrameNoMonotonic ==
    [][\/ ss'.frame_no = ss.frame_no
       \/ ss'.frame_no = ss.frame_no + ss.frame_step]_vars

\* frame_no has advanced once and a later downward iterate has kept it
C12_Witness ==
    /\ ss.frame_no = ss.frame_step
    /\ ss.dir_y = "DOWN"
    /\ ss.tilt = 0

\* C13: the rotation angle on the host (motor_rotate) always equals the
\* internal rotation, negative or beyond a full turn, and an iterate that
\* issues no tilt command leaves impossible_move as it was
C13_RotationAlwaysApplied ==
    /\ [](host_rotate = radians(ss.rotation))
    /\ [][ss'.tilt = ss.tilt =>
            ss'.impossible_move = ss.impossible_move]_vars

\* a rotation command beyond 360 degrees has reached the host and has not
\* set the flag
C13_Witness ==
    /\ ss.dir_x = "LEFT" /\ ss.dir_y = "CENTER"
    /\ ss.rotation = 361
    /\ host_rotate = radians(361)
    /\ ~ss.impossible_move

\* the direction of an axis for a coordinate c, with low and high the two
\* directions away from the centre
DirectionOf(c, low, high) ==
    IF InDeadZone(c) THEN "CENTER"
    ELSE IF c >= ss.center THEN high ELSE low

\* C14: the directions exposed after an iterate are those of the frame that
\* call captured, and an iterate that follows a converged one on a frame
\* whose spot is outside the dead zone reports a direction other than
\* (CENTER, CENTER) and moves an axis
C14_ConvergenceNotAbsorbing ==
    /\ [](Classified =>
            /\ ss.dir_x = DirectionOf(ss.data[1], "LEFT", "RIGHT")
            /\ ss.dir_y = DirectionOf(ss.data[2], "UP", "DOWN"))
    /\ [][(/\ ss.dir_x = "CENTER" /\ ss.dir_y = "CENTER"
           /\ ~(ss.center - ss.t < ss'.data[1] /\ ss'.data[1] < ss.center + ss.t
                /\ ss.center - ss.t < ss'.data[2] /\ ss'.data[2] < ss.center + ss.t))
            => /\ ~(ss'.dir_x = "CENTER" /\ ss'.dir_y = "CENTER")
               /\ (ss'.rotation # ss.rotation \/ ss'.tilt # ss.tilt)]_vars

\* the state after a leftward, a converged and then a rightward and downward
\* iterate: the tracker has moved again after converging
C14_Witness ==
    World = iterate(iterate(iterate(__init__, <<0, 256>>), <<256, 256>>), <<511, 511>>)

\* the tracker in its current state but with impossible_move set to flag
WithFlag(flag) == [World EXCEPT !.ss.impossible_move = flag]

\* C15: an iterate on the same frame from two states that differ only in
\* impossible_move gives the same directions, internal angles, host angles,
\* frame_no and keyframes (the results differ in the flag at most); and
\* while the flag is true an iterate on a frame that is not converged still
\* moves an axis
C15_FlagDoesNotInfluenceControl ==
    /\ [](\A frame \in Spots :
            LET clear == iterate(WithFlag(FALSE), frame)
                set   == iterate(WithFlag(TRUE), frame)
            IN  /\ set.bpy = clear.bpy
                /\ [set.ss EXCEPT !.impossible_move = FALSE]
                     = [clear.ss EXCEPT !.impossible_move = FALSE])
    /\ [][(ss.impossible_move /\ ~(ss'.dir_x = "CENTER" /\ ss'.dir_y = "CENTER"))
            => (ss'.rotation # ss.rotation \/ ss'.tilt # ss.tilt)]_vars

\* with the flag set by an earlier tilt command, an iterate has classified
\* its frame and turned the rotation axis
C15_Witness ==
    /\ ss.impossible_move
    /\ ss.dir_x = "LEFT" /\ ss.dir_y = "CENTER"
    /\ ss.rotation = 1
    /\ ss.tilt = -1

\* C16: while impossible_move is false the internal tilt is the tilt on the
\* host and lies within [0, 90]
C16_NoFlagNoDivergence ==
    ~ss.impossible_move =>
        /\ host_tilt = radians(ss.tilt)
        /\ TiltInBounds(ss.tilt)

\* the tracker has come down one step from the upper bound without ever
\* setting the flag
C16_Witness ==
    /\ ~ss.impossible_move
    /\ ss.dir_y = "DOWN"
    /\ ss.tilt = 89
    /\ host_tilt = radians(89)

\* the frames of successive keyframes of a motor are strictly increasing
FramesIncrease(keys) ==
    \A i \in 1 .. Len(keys) - 1 : keys[i].frame < keys[i + 1].frame

\* C17: frame_no is frame_step times the number of keyframes written to each
\* motor, and the frames of successive keyframes are strictly increasing, so
\* no keyframe is written at a frame that already holds one
C17_FrameNoCountsKeyframes ==
    /\ ss.frame_no = ss.frame_step * Len(tilt_keys)
    /\ ss.frame_no = ss.frame_step * Len(rotate_keys)
    /\ FramesIncrease(tilt_keys)
    /\ FramesIncrease(rotate_keys)

\* a keyframe has been written after those of the climb, by an upward
\* iterate whose tilt step was infeasible
C17_Witness ==
    /\ Len(tilt_keys) > 1
    /\ ss.impossible_move
    /\ ss.dir_y = "UP"
    /\ tilt_keys[Len(tilt_keys)].frame = ss.frame_no
    /\ tilt_keys[Len(tilt_keys) - 1].frame = ss.frame_no - ss.frame_step

====
